---------------------------- MODULE Spec2Model ----------------------------
(***************************************************************************)
(* Model of rise-itemizer (src/main.py): the edit-distance matcher, the    *)
(* name validator, the attribute parser and the batch driver that writes   *)
(* one CSV row per image.                                                  *)
(*                                                                         *)
(* Python strings are TLA+ strings; TLC evaluates Len, SubSeq and \o on    *)
(* them, so a character is a string of length one.  A Python dict is a     *)
(* sequence of [k, v] entries in insertion order.  A value of the item     *)
(* record carries its Python type: [t |-> "str" | "int" | "bool", v |-> _].*)
(*                                                                         *)
(* The texts of the model are ASCII: str.lower, str.strip and \d are given *)
(* for the characters U+0000..U+007F.  An integer is a TLC integer, so a   *)
(* digit run stands for its number up to 2147483647.                       *)
(***************************************************************************)
EXTENDS Integers, Sequences, FiniteSets, TLC

VARIABLES
    pc,             \* position of the running call / of main()
    s1, s2,         \* arguments of levenshtein_distance
    lev_result,     \* its return value
    name,           \* argument of validate_item_name
    val_result,     \* its return value <<name, type>>
    item_data,      \* catalog dict: name -> type
    column_names,   \* set of lowercase UI labels
    text,           \* argument of parse_attributes (OCR text)
    lines,          \* local `lines` of parse_attributes
    attributes,     \* local `attributes` of parse_attributes
    i,              \* index of the line the scan loop is at
    image_files,    \* main(): files still to process
    fieldnames,     \* main(): header of the csv.DictWriter
    csv_rows        \* main(): rows written so far, header first

vars == <<pc, s1, s2, lev_result, name, val_result, item_data, column_names,
          text, lines, attributes, i, image_files, fieldnames, csv_rows>>

-----------------------------------------------------------------------------
(* Bounds of the checked input spaces *)

MaxStrLen == 4
MaxCatalog == 2
MaxLines == 2
MaxImages == 2

-----------------------------------------------------------------------------
(* Python string primitives *)

Ch(s, k) == SubSeq(s, k, k)

Min2(a, b) == IF a <= b THEN a ELSE b

Min3(a, b, c) == Min2(a, Min2(b, c))

UpperAlpha == "ABCDEFGHIJKLMNOPQRSTUVWXYZ"

LowerAlpha == "abcdefghijklmnopqrstuvwxyz"

DigitChars == "0123456789"

\* str.isspace() over ASCII: space, \t, \n, \r, \f, and the control
\* characters U+000B (VT), U+001C (FS), U+001D (GS), U+001E (RS), U+001F (US),
\* written here as the characters themselves
Whitespace == {" ", "\t", "\n", "\r", "\f", "", "", "", "", ""}

\* str.lower() on one character: ASCII letters fold, everything else stays
LowerTable ==
    [c \in {Ch(UpperAlpha, k) : k \in 1..26} |->
        Ch(LowerAlpha, CHOOSE k \in 1..26 : Ch(UpperAlpha, k) = c)]

LowerChar(c) == IF c \in DOMAIN LowerTable THEN LowerTable[c] ELSE c

\* str.lower(): every character folded, the two halves joined
RECURSIVE lower(_)
lower(s) ==
    IF Len(s) = 0 THEN ""
    ELSE IF Len(s) = 1 THEN LowerChar(s)
    ELSE LET half == Len(s) \div 2
         IN lower(SubSeq(s, 1, half)) \o lower(SubSeq(s, half + 1, Len(s)))

\* s from its first character that is not whitespace
lstrip(s) ==
    IF \E k \in 1..Len(s) : Ch(s, k) \notin Whitespace
    THEN LET first == CHOOSE k \in 1..Len(s) :
                         /\ Ch(s, k) \notin Whitespace
                         /\ \A m \in 1..(k - 1) : Ch(s, m) \in Whitespace
         IN SubSeq(s, first, Len(s))
    ELSE ""

\* s up to its last character that is not whitespace
rstrip(s) ==
    IF \E k \in 1..Len(s) : Ch(s, k) \notin Whitespace
    THEN LET last == CHOOSE k \in 1..Len(s) :
                        /\ Ch(s, k) \notin Whitespace
                        /\ \A m \in (k + 1)..Len(s) : Ch(s, m) \in Whitespace
         IN SubSeq(s, 1, last)
    ELSE ""

strip(s) == rstrip(lstrip(s))

\* sub in s
contains(sub, s) ==
    \E k \in 1..(Len(s) - Len(sub) + 1) : SubSeq(s, k, k + Len(sub) - 1) = sub

\* s.split(sep) for a one-character separator: the list of fields
RECURSIVE split(_, _)
split(s, sep) ==
    IF \E k \in 1..Len(s) : Ch(s, k) = sep
    THEN LET first == CHOOSE k \in 1..Len(s) :
                          /\ Ch(s, k) = sep
                          /\ \A m \in 1..(k - 1) : Ch(s, m) # sep
         IN <<SubSeq(s, 1, first - 1)>> \o split(SubSeq(s, first + 1, Len(s)), sep)
    ELSE <<s>>

IsDigit(c) == \E k \in 1..10 : Ch(DigitChars, k) = c

DigitVal(c) == (CHOOSE k \in 1..10 : Ch(DigitChars, k) = c) - 1

\* re.search(r'\d+', s): the leftmost maximal run of digits, "" for None
re_search_digits(s) ==
    IF \E k \in 1..Len(s) : IsDigit(Ch(s, k))
    THEN LET first == CHOOSE k \in 1..Len(s) :
                         /\ IsDigit(Ch(s, k))
                         /\ \A m \in 1..(k - 1) : ~IsDigit(Ch(s, m))
             last == IF \E k \in first..Len(s) : ~IsDigit(Ch(s, k))
                     THEN (CHOOSE k \in first..Len(s) :
                               /\ ~IsDigit(Ch(s, k))
                               /\ \A m \in first..(k - 1) : IsDigit(Ch(s, m))) - 1
                     ELSE Len(s)
         IN SubSeq(s, first, last)
    ELSE ""

\* sys.get_int_max_str_digits(): int() of a longer digit string raises
\* ValueError (CPython 3.11)
IntMaxStrDigits == 4300

int_raises(s) == Len(s) > IntMaxStrDigits

\* int(s) for a string of at most IntMaxStrDigits decimal digits
RECURSIVE int_from(_, _)
int_from(s, acc) ==
    IF s = "" THEN acc ELSE int_from(Tail(s), 10 * acc + DigitVal(Ch(s, 1)))

\* leading zeros carry no value and are passed over before the digits are
\* accumulated
int(s) ==
    IF \E k \in 1..Len(s) : Ch(s, k) # "0"
    THEN LET first == CHOOSE k \in 1..Len(s) :
                         /\ Ch(s, k) # "0"
                         /\ \A m \in 1..(k - 1) : Ch(s, m) = "0"
         IN int_from(SubSeq(s, first, Len(s)), 0)
    ELSE 0

-----------------------------------------------------------------------------
(* Python dict primitives: a sequence of [k, v] entries, keys unique *)

dict_keys(d) == [j \in 1..Len(d) |-> d[j].k]

dict_has(d, key) == \E j \in 1..Len(d) : d[j].k = key

dict_get(d, key) == d[CHOOSE j \in 1..Len(d) : d[j].k = key].v

\* d[key] = val: an existing key keeps its position, a new key goes last
dict_set(d, key, val) ==
    IF dict_has(d, key)
    THEN [j \in 1..Len(d) |-> IF d[j].k = key THEN [k |-> key, v |-> val] ELSE d[j]]
    ELSE Append(d, [k |-> key, v |-> val])

\* d.update(e) and {**d, **e}: a key of d takes e's value where it stands, the
\* keys only e has follow in e's order
dict_update(d, e) ==
    [j \in 1..Len(d) |->
        IF dict_has(e, d[j].k) THEN [k |-> d[j].k, v |-> dict_get(e, d[j].k)] ELSE d[j]]
    \o SelectSeq(e, LAMBDA entry : ~dict_has(d, entry.k))

\* min(keys, key=f) with the scores already computed: the first minimum
argmin_first(scores) ==
    CHOOSE j \in 1..Len(scores) :
        /\ \A m \in 1..Len(scores) : scores[j] <= scores[m]
        /\ \A m \in 1..(j - 1) : scores[m] > scores[j]

-----------------------------------------------------------------------------
(* levenshtein_distance *)

\* lev_inner charging a substitution even when the two characters agree
RECURSIVE lev_inner_always_substitutes(_, _, _, _)
lev_inner_always_substitutes(previous_row, current_row, c1, str2) ==
    LET j == Len(current_row)
    IN IF j = Len(previous_row) THEN current_row
       ELSE LET insertions == previous_row[j + 1] + 1
                deletions == current_row[j] + 1
                substitutions == previous_row[j] + 1
            IN lev_inner_always_substitutes(
                   previous_row,
                   Append(current_row, Min3(insertions, deletions, substitutions)),
                   c1, str2)

\* the inner loop over s2: current_row grows by one cell per character until
\* it is as long as previous_row (len(s2) + 1); j is enumerate's index plus one
RECURSIVE lev_inner(_, _, _, _)
lev_inner(previous_row, current_row, c1, str2) ==
    LET j == Len(current_row)
    IN IF j = Len(previous_row) THEN current_row
       ELSE LET insertions == previous_row[j + 1] + 1
                deletions == current_row[j] + 1
                substitutions == previous_row[j] + (IF c1 # Ch(str2, j) THEN 1 ELSE 0)
            IN lev_inner(previous_row,
                         Append(current_row, Min3(insertions, deletions, substitutions)),
                         c1, str2)

\* previous_row after the passes lo..hi of the outer loop over s1, begun with
\* previous_row; pass r starts its row with r (i + 1) and reads s1's r-th
\* character.  The passes are split in halves to keep the evaluation shallow,
\* and the first half's row (always as long as previous_row) is measured so
\* that it is computed before the second half begins, as the loop computes it.
RECURSIVE lev_row(_, _, _, _, _)
lev_row(previous_row, str1, str2, lo, hi) ==
    IF lo > hi THEN previous_row
    ELSE IF lo = hi THEN lev_inner(previous_row, <<lo>>, Ch(str1, lo), str2)
    ELSE LET mid == (lo + hi) \div 2
             half == lev_row(previous_row, str1, str2, lo, mid)
         IN IF Len(half) = Len(previous_row)
            THEN lev_row(half, str1, str2, mid + 1, hi)
            ELSE half

lev_ordered(str1, str2) ==
    IF Len(str2) = 0 THEN Len(str1)
    ELSE LET range == [j \in 1..(Len(str2) + 1) |-> j - 1]
             previous_row == lev_row(range, str1, str2, 1, Len(str1))
         IN previous_row[Len(previous_row)]

levenshtein_distance(str1, str2) ==
    IF Len(str1) < Len(str2) THEN lev_ordered(str2, str1)
    ELSE lev_ordered(str1, str2)

-----------------------------------------------------------------------------
(* validate_item_name *)

ValidateThreshold == 3

\* min(item_data.keys(), key=lambda x: levenshtein_distance(name, x))
closest_match_to(candidate, catalog) ==
    LET keys == dict_keys(catalog)
        scores == [j \in 1..Len(keys) |-> levenshtein_distance(candidate, keys[j])]
    IN keys[argmin_first(scores)]

\* validate_item_name looking the name up in the catalog before the labels
validate_item_name_exact_first(candidate, catalog, labels) ==
    IF catalog # <<>> /\ dict_has(catalog, candidate)
    THEN <<candidate, dict_get(catalog, candidate)>>
    ELSE IF lower(candidate) \in labels THEN <<"", "">>
    ELSE IF catalog = <<>> THEN <<candidate, "">>
    ELSE LET closest_match == closest_match_to(candidate, catalog)
         IN IF levenshtein_distance(candidate, closest_match) <= ValidateThreshold
            THEN <<closest_match, dict_get(catalog, closest_match)>>
            ELSE <<candidate, "">>

validate_item_name(candidate, catalog, labels) ==
    IF lower(candidate) \in labels THEN <<"", "">>
    ELSE IF catalog = <<>> THEN <<candidate, "">>
    ELSE IF dict_has(catalog, candidate)
         THEN <<candidate, dict_get(catalog, candidate)>>
    ELSE LET closest_match == closest_match_to(candidate, catalog)
         IN IF levenshtein_distance(candidate, closest_match) <= ValidateThreshold
            THEN <<closest_match, dict_get(catalog, closest_match)>>
            ELSE <<candidate, "">>

-----------------------------------------------------------------------------
(* parse_attributes *)

PyStr(s) == [t |-> "str", v |-> s]

PyInt(n) == [t |-> "int", v |-> n]

PyBool(b) == [t |-> "bool", v |-> b]

\* the literal the function starts from
default_attributes ==
    <<
        [k |-> "Name", v |-> PyStr("")],
        [k |-> "Item Type", v |-> PyStr("")],
        [k |-> "Is Radiant", v |-> PyBool(FALSE)],
        [k |-> "Item Quality", v |-> PyStr("")],
        [k |-> "Grade", v |-> PyStr("")],
        [k |-> "Max Rune", v |-> PyInt(0)],
        [k |-> "Attack Power", v |-> PyInt(0)],
        [k |-> "Physical Defense Bonus", v |-> PyInt(0)],
        [k |-> "Dagger Defense", v |-> PyInt(0)],
        [k |-> "Sword Defense", v |-> PyInt(0)],
        [k |-> "Mace Defense", v |-> PyInt(0)],
        [k |-> "Axe Defense", v |-> PyInt(0)],
        [k |-> "Spear Defense", v |-> PyInt(0)],
        [k |-> "Bow Defense", v |-> PyInt(0)],
        [k |-> "Mirror Damage", v |-> PyInt(0)],
        [k |-> "Poison Damage", v |-> PyInt(0)],
        [k |-> "Fire Damage", v |-> PyInt(0)],
        [k |-> "Ice Damage", v |-> PyInt(0)],
        [k |-> "Lightning Damage", v |-> PyInt(0)],
        [k |-> "Holy Damage", v |-> PyInt(0)],
        [k |-> "HP Leech", v |-> PyInt(0)],
        [k |-> "Mana Burn", v |-> PyInt(0)],
        [k |-> "Strength Bonus", v |-> PyInt(0)],
        [k |-> "Health Bonus", v |-> PyInt(0)],
        [k |-> "Dexterity Bonus", v |-> PyInt(0)],
        [k |-> "Intelligence Bonus", v |-> PyInt(0)],
        [k |-> "Magic Bonus", v |-> PyInt(0)],
        [k |-> "HP Bonus", v |-> PyInt(0)],
        [k |-> "MP Bonus", v |-> PyInt(0)],
        [k |-> "Fire Resistance", v |-> PyInt(0)],
        [k |-> "Ice Resistance", v |-> PyInt(0)],
        [k |-> "Lightning Resistance", v |-> PyInt(0)],
        [k |-> "Holy Damage Resistance", v |-> PyInt(0)],
        [k |-> "Poison Damage Resistance", v |-> PyInt(0)],
        [k |-> "Curse Damage Resistance", v |-> PyInt(0)],
        [k |-> "Required Magic", v |-> PyInt(0)],
        [k |-> "Required Intelligence", v |-> PyInt(0)],
        [k |-> "Required HP", v |-> PyInt(0)],
        [k |-> "Required Strength", v |-> PyInt(0)],
        [k |-> "Required Dexterity", v |-> PyInt(0)],
        [k |-> "Required Level", v |-> PyInt(0)],
        [k |-> "Durability", v |-> PyInt(0)],
        [k |-> "Weight", v |-> PyInt(0)],
        [k |-> "Description", v |-> PyStr("")]
    >>

Marker == "Runes can't be added to this item"

ParseThreshold == 5

\* `not text.strip()`
text_is_blank(txt) == strip(txt) = ""

\* [line.strip() for line in text.split('\n') if line.strip()]
RECURSIVE strip_nonempty(_)
strip_nonempty(raw) ==
    IF raw = <<>> THEN <<>>
    ELSE IF strip(raw[1]) # "" THEN <<strip(raw[1])>> \o strip_nonempty(Tail(raw))
    ELSE strip_nonempty(Tail(raw))

parse_lines(txt) == strip_nonempty(split(txt, "\n"))

\* the first line that is not the marker phrase becomes attributes['Name']
extract_name(attrs, lns) ==
    IF \E j \in 1..Len(lns) : lns[j] # Marker
    THEN LET first == CHOOSE j \in 1..Len(lns) :
                          /\ lns[j] # Marker
                          /\ \A m \in 1..(j - 1) : lns[m] = Marker
         IN dict_set(attrs, "Name", PyStr(lns[first]))
    ELSE attrs

\* python truthiness of a record value
truthy(val) ==
    IF val.t = "str" THEN val.v # ""
    ELSE IF val.t = "int" THEN val.v # 0
    ELSE val.v

\* min(item_data.keys(), key=lambda x: levenshtein_distance(name.lower(), x.lower()))
closest_match_lower(candidate, catalog) ==
    LET keys == dict_keys(catalog)
        scores == [j \in 1..Len(keys) |->
                       levenshtein_distance(lower(candidate), lower(keys[j]))]
    IN keys[argmin_first(scores)]

\* min() of an empty sequence raises ValueError
resolve_name_raises(attrs, catalog) ==
    truthy(dict_get(attrs, "Name")) /\ catalog = <<>>

resolve_name(attrs, catalog) ==
    IF ~truthy(dict_get(attrs, "Name")) THEN attrs
    ELSE LET candidate == dict_get(attrs, "Name").v
             closest_match == closest_match_lower(candidate, catalog)
             distance == levenshtein_distance(lower(candidate), lower(closest_match))
         IN IF distance <= ParseThreshold
            THEN dict_set(dict_set(attrs, "Name", PyStr(closest_match)),
                          "Item Type", PyStr(dict_get(catalog, closest_match)))
            ELSE attrs

\* if "Runes can't be added to this item" in line
scan_radiant(attrs, line) ==
    IF contains(Marker, line) THEN dict_set(attrs, "Is Radiant", PyBool(TRUE))
    ELSE attrs

\* int(value.group()) raises for the first key whose label is in the line
scan_attrs_raises(attrs, line) ==
    /\ int_raises(re_search_digits(line))
    /\ LET lowered == lower(line)
       IN \E j \in 1..Len(attrs) : contains(lower(attrs[j].k), lowered)

\* for attr in attributes: each pass tests its own key against the line and
\* writes only attributes[attr], so the loop is a map over the entries
scan_attrs(attrs, line) ==
    LET lowered == lower(line)
        value == re_search_digits(line)
    IN [j \in 1..Len(attrs) |->
           IF contains(lower(attrs[j].k), lowered) /\ value # ""
           THEN [k |-> attrs[j].k, v |-> PyInt(int(value))]
           ELSE attrs[j]]

\* line.split(':')[-1].strip()
after_last_colon(line) ==
    LET parts == split(line, ":") IN strip(parts[Len(parts)])

scan_special(attrs, line) ==
    LET q == IF contains("quality", lower(line))
             THEN dict_set(attrs, "Item Quality", PyStr(after_last_colon(line)))
             ELSE attrs
    IN IF contains("grade", lower(line))
       THEN dict_set(q, "Grade", PyStr(after_last_colon(line)))
       ELSE q

\* any(attr.lower() in line.lower() for attr in attributes)
any_label_in(attrs, line) ==
    LET lowered == lower(line)
    IN \E j \in 1..Len(attrs) : contains(lower(attrs[j].k), lowered)

\* extract_description writing attributes['description'], a key of its own
extract_description_new_key(attrs, lns) ==
    IF \E j \in 1..Len(lns) : ~any_label_in(attrs, lns[j]) /\ lns[j] # Marker
    THEN LET last == CHOOSE j \in 1..Len(lns) :
                         /\ ~any_label_in(attrs, lns[j]) /\ lns[j] # Marker
                         /\ \A m \in (j + 1)..Len(lns) :
                                any_label_in(attrs, lns[m]) \/ lns[m] = Marker
         IN dict_set(attrs, "description", PyStr(lns[last]))
    ELSE attrs

\* for line in reversed(lines): the first hit from the end, then break
extract_description(attrs, lns) ==
    IF \E j \in 1..Len(lns) : ~any_label_in(attrs, lns[j]) /\ lns[j] # Marker
    THEN LET last == CHOOSE j \in 1..Len(lns) :
                         /\ ~any_label_in(attrs, lns[j]) /\ lns[j] # Marker
                         /\ \A m \in (j + 1)..Len(lns) :
                                any_label_in(attrs, lns[m]) \/ lns[m] = Marker
         IN dict_set(attrs, "Description", PyStr(lns[last]))
    ELSE attrs

\* the body of `for line in lines` for one line
scan_line(attrs, line) ==
    scan_special(scan_attrs(scan_radiant(attrs, line), line), line)

\* the loop `for line in lines` from line j on, when no pass raises
RECURSIVE scan_lines_from(_, _, _)
scan_lines_from(attrs, lns, j) ==
    IF j > Len(lns) THEN attrs
    ELSE scan_lines_from(scan_line(attrs, lns[j]), lns, j + 1)

\* some pass of the loop raises; the keys tested are the same on every line
scan_lines_raise(attrs, lns) ==
    \E j \in 1..Len(lns) : scan_attrs_raises(attrs, lns[j])

\* The whole call: [raised |-> TRUE] for an exception, else the record
parse_attributes(txt, catalog, labels) ==
    IF text_is_blank(txt) THEN [raised |-> FALSE, value |-> default_attributes]
    ELSE LET lns == parse_lines(txt)
             named == extract_name(default_attributes, lns)
         IN IF resolve_name_raises(named, catalog) \/ scan_lines_raise(named, lns)
            THEN [raised |-> TRUE, value |-> "ValueError"]
            ELSE [raised |-> FALSE,
                  value |-> extract_description(
                                scan_lines_from(resolve_name(named, catalog), lns, 1),
                                lns)]

-----------------------------------------------------------------------------
(* load_item_data, load_column_names and the pieces of main *)

\* A CSV file on disk: [exists |-> BOOLEAN, rows |-> the DictReader's rows]

\* for row in reader: item_data[row['Name']] = row['Type']
RECURSIVE read_item_rows(_, _)
read_item_rows(acc, rows) ==
    IF rows = <<>> THEN acc
    ELSE read_item_rows(dict_set(acc, rows[1].Name, rows[1].Type), Tail(rows))

load_item_data(csv_file) ==
    IF ~csv_file.exists THEN <<>> ELSE read_item_rows(<<>>, csv_file.rows)

load_column_names(csv_file) ==
    IF ~csv_file.exists THEN {}
    ELSE {lower(csv_file.rows[j].Name) : j \in 1..Len(csv_file.rows)}

\* s.endswith(suffix)
endswith(s, suffix) ==
    Len(s) >= Len(suffix) /\ SubSeq(s, Len(s) - Len(suffix) + 1, Len(s)) = suffix

\* f.lower().endswith(('.png', '.jpg', '.jpeg'))
is_image_file(f) ==
    \E suffix \in {".png", ".jpg", ".jpeg"} : endswith(lower(f), suffix)

\* [f for f in os.listdir(IMAGES_DIR) if ...]
RECURSIVE filter_images(_)
filter_images(listing) ==
    IF listing = <<>> THEN <<>>
    ELSE IF is_image_file(listing[1]) THEN <<listing[1]>> \o filter_images(Tail(listing))
    ELSE filter_images(Tail(listing))

\* list(parse_attributes('', {}, set()).keys()) with 'Filename' inserted at 0
header_fieldnames ==
    <<"Filename">> \o dict_keys(parse_attributes("", <<>>, {}).value)

\* {'Filename': filename, **attributes}
make_row(filename, attrs) ==
    dict_update(<<[k |-> "Filename", v |-> PyStr(filename)]>>, attrs)

\* csv.DictWriter.writerow with extrasaction='raise': a key outside fieldnames
writerow_raises(names, row) ==
    \E j \in 1..Len(row) : \A m \in 1..Len(names) : names[m] # row[j].k

\* the cells written, in fieldnames order; a key the row lacks is filled with
\* restval ''
writerow_cells(names, row) ==
    [m \in 1..Len(names) |->
        IF dict_has(row, names[m])
        THEN [k |-> names[m], v |-> dict_get(row, names[m]), filled |-> FALSE]
        ELSE [k |-> names[m], v |-> PyStr(""), filled |-> TRUE]]

-----------------------------------------------------------------------------
(* Values every specification leaves alone start here *)

IdleLev == s1 = "" /\ s2 = "" /\ lev_result = -1

IdleValidate == name = "" /\ val_result = <<>>

IdleParse == text = "" /\ lines = <<>> /\ attributes = <<>> /\ i = 0

IdleBatch == image_files = <<>> /\ fieldnames = <<>> /\ csv_rows = <<>>

-----------------------------------------------------------------------------
(* Specification SpecLev: levenshtein_distance on every pair of strings     *)
(* over LevAlphabet of length at most MaxStrLen                             *)

LevAlphabet == {"a", "b"}

RECURSIVE StringsUpTo(_, _)
StringsUpTo(alphabet, n) ==
    IF n = 0 THEN {""}
    ELSE LET shorter == StringsUpTo(alphabet, n - 1)
         IN shorter \cup {s \o c : s \in shorter, c \in alphabet}

LevStrings == StringsUpTo(LevAlphabet, MaxStrLen)

InitLev ==
    /\ pc = "lev_call"
    /\ s1 \in LevStrings
    /\ s2 \in LevStrings
    /\ lev_result = -1
    /\ item_data = <<>> /\ column_names = {}
    /\ IdleValidate /\ IdleParse /\ IdleBatch

CallLevenshtein ==
    /\ pc = "lev_call"
    /\ lev_result' = levenshtein_distance(s1, s2)
    /\ pc' = "lev_done"
    /\ UNCHANGED <<s1, s2, name, val_result, item_data, column_names, text,
                   lines, attributes, i, image_files, fieldnames, csv_rows>>

NextLev == CallLevenshtein

SpecLev == InitLev /\ [][NextLev]_vars

\* The strings one insertion, deletion or substitution away from s
Edits(s, alphabet) ==
    {SubSeq(s, 1, k - 1) \o SubSeq(s, k + 1, Len(s)) : k \in 1..Len(s)}
    \cup {SubSeq(s, 1, k - 1) \o c \o SubSeq(s, k + 1, Len(s)) :
              k \in 1..Len(s), c \in alphabet}
    \cup {SubSeq(s, 1, k) \o c \o SubSeq(s, k + 1, Len(s)) :
              k \in 0..Len(s), c \in alphabet}

\* The strings at most n edits away from the strings of S
RECURSIVE EditBall(_, _, _)
EditBall(S, n, alphabet) ==
    IF n = 0 THEN S
    ELSE LET B == EditBall(S, n - 1, alphabet)
         IN B \cup UNION {Edits(s, alphabet) : s \in B}

\* The least number of single-character edits that turn a into b
EditDistance(a, b) ==
    CHOOSE n \in 0..(Len(a) + Len(b)) :
        /\ b \in EditBall({a}, n, LevAlphabet)
        /\ \A m \in 0..(n - 1) : b \notin EditBall({a}, m, LevAlphabet)

\* C7: levenshtein_distance(a, b) is the classic Levenshtein distance, the
\* least number of single-character insertions, deletions and substitutions
\* that turn a into b; distance(s, s) = 0, distance("", s) = len(s), and
\* distance(a, b) = distance(b, a).
C7_LevenshteinIsClassic ==
    pc = "lev_done" =>
        /\ lev_result = EditDistance(s1, s2)
        /\ lev_result = levenshtein_distance(s2, s1)
        /\ (s1 = s2 => lev_result = 0)
        /\ (s1 = "" => lev_result = Len(s2))

C7_Witness ==
    /\ pc = "lev_done"
    /\ Len(s1) = MaxStrLen /\ Len(s2) = MaxStrLen - 1
    /\ s1 # s2 /\ lev_result = MaxStrLen

-----------------------------------------------------------------------------
(* Specification SpecValidate: validate_item_name on bounded inputs *)

ValidateNames == StringsUpTo(LevAlphabet, MaxStrLen) \cup {"Ab", "AB", "Bbbb"}

CatalogKeys == {"ab", "Ab", "bbbb", "a"}

CatalogTypeOf == ("ab" :> "Weapon") @@ ("Ab" :> "Armor")
                 @@ ("bbbb" :> "Ring") @@ ("a" :> "Anklet")

\* A loaded catalog has one entry per name, in the order the rows were read
SmallCatalogs ==
    {c \in UNION {[1..n -> CatalogKeys] : n \in 0..MaxCatalog} :
        \A j, m \in 1..Len(c) : j # m => c[j] # c[m]}

ValidateCatalogs ==
    {[j \in 1..Len(c) |-> [k |-> c[j], v |-> CatalogTypeOf[c[j]]]] :
        c \in SmallCatalogs}

ValidateColumnSets == {{}, {"ab"}, {"a", "bbbb"}}

InitValidate ==
    /\ pc = "validate_call"
    /\ name \in ValidateNames
    /\ item_data \in ValidateCatalogs
    /\ column_names \in ValidateColumnSets
    /\ val_result = <<>>
    /\ IdleLev /\ IdleParse /\ IdleBatch

CallValidate ==
    /\ pc = "validate_call"
    /\ val_result' = validate_item_name(name, item_data, column_names)
    /\ pc' = "validate_done"
    /\ UNCHANGED <<s1, s2, lev_result, name, item_data, column_names, text,
                   lines, attributes, i, image_files, fieldnames, csv_rows>>

NextValidate == CallValidate

SpecValidate == InitValidate /\ [][NextValidate]_vars

KeyDistances(candidate, catalog) ==
    {levenshtein_distance(candidate, catalog[j].k) : j \in 1..Len(catalog)}

LeastDistance(candidate, catalog) ==
    CHOOSE d \in KeyDistances(candidate, catalog) :
        \A e \in KeyDistances(candidate, catalog) : d <= e

\* C6: validate_item_name decides in four steps, first match winning:
\* (1) a candidate whose lowercase is a column name gives ("", ""), even when
\* it is an exact catalog key; (2) else an empty catalog gives (candidate, "");
\* (3) else an exact key gives (candidate, catalog[candidate]); (4) else, with
\* k a key of least edit distance, (k, catalog[k]) if that distance is at
\* most 3 and (candidate, "") if it is greater.
C6_ValidateDecisionOrder ==
    pc = "validate_done" =>
        IF lower(name) \in column_names THEN val_result = <<"", "">>
        ELSE IF Len(item_data) = 0 THEN val_result = <<name, "">>
        ELSE IF \E j \in 1..Len(item_data) : item_data[j].k = name
             THEN \E j \in 1..Len(item_data) :
                      /\ item_data[j].k = name
                      /\ val_result = <<name, item_data[j].v>>
        ELSE IF LeastDistance(name, item_data) <= 3
             THEN \E j \in 1..Len(item_data) :
                      /\ levenshtein_distance(name, item_data[j].k)
                             = LeastDistance(name, item_data)
                      /\ val_result = <<item_data[j].k, item_data[j].v>>
        ELSE val_result = <<name, "">>

\* a fuzzy hit at exactly the threshold: "aaab" is three edits from "a"
C6_Witness ==
    /\ pc = "validate_done"
    /\ name = "aaab"
    /\ item_data = <<[k |-> "a", v |-> "Anklet"]>>
    /\ column_names = {}
    /\ val_result = <<"a", "Anklet">>

-----------------------------------------------------------------------------
(* Specification SpecParse: one call of parse_attributes, block by block,   *)
(* on every text of at most MaxLines lines drawn from ParseLinePool         *)

ParseLinePool ==
    { "", " ", Marker,
      "Iron Swrd", "name", "Name 12", "Is Radiant 7",
      "Attack Power 45", "Attack Power", "12 Holy Damage Resistance",
      "Item Quality: Rare 3", "Description 5", "A sturdy blade." }

RECURSIVE join_lines(_)
join_lines(ls) ==
    IF ls = <<>> THEN ""
    ELSE IF Len(ls) = 1 THEN ls[1]
    ELSE ls[1] \o "\n" \o join_lines(Tail(ls))

\* s repeated n times
RECURSIVE repeat(_, _)
repeat(s, n) ==
    IF n = 0 THEN ""
    ELSE LET half == repeat(s, n \div 2)
         IN half \o half \o (IF n % 2 = 1 THEN s ELSE "")

\* a stat line whose digit run is one digit over int()'s limit
LongDigitText == "Iron Swrd\nWeight " \o repeat("9", IntMaxStrDigits + 1)

ParseTexts ==
    {join_lines(ls) : ls \in UNION {[1..n -> ParseLinePool] : n \in 0..MaxLines}}
    \cup {LongDigitText, "", "Iron Swrd\n\nGrade:A"}

ParseCatalogs ==
    { <<>>,
      <<[k |-> "Iron Sword", v |-> "Weapon"], [k |-> "Iron Shield", v |-> "Armor"]>> }

ParseColumnSets == {{"name", "attack power"}}

InitParse ==
    /\ pc = "parse_call"
    /\ text \in ParseTexts
    /\ item_data \in ParseCatalogs
    /\ column_names \in ParseColumnSets
    /\ lines = <<>> /\ attributes = <<>> /\ i = 0
    /\ IdleLev /\ IdleValidate /\ IdleBatch

NotParse == <<s1, s2, lev_result, name, val_result, item_data, column_names,
              text, image_files, fieldnames, csv_rows>>

\* lines 147-198: the defaults, the blank-text return, the line list
ParseBegin ==
    /\ pc = "parse_call"
    /\ attributes' = default_attributes
    /\ IF text_is_blank(text)
       THEN pc' = "parse_returned" /\ lines' = lines
       ELSE pc' = "extract_name" /\ lines' = parse_lines(text)
    /\ UNCHANGED <<i, NotParse>>

\* lines 204-208
ExtractName ==
    /\ pc = "extract_name"
    /\ attributes' = extract_name(attributes, lines)
    /\ pc' = "resolve_name"
    /\ UNCHANGED <<lines, i, NotParse>>

\* lines 211-219
ResolveName ==
    /\ pc = "resolve_name"
    /\ IF resolve_name_raises(attributes, item_data)
       THEN pc' = "parse_raised" /\ UNCHANGED <<attributes, i>>
       ELSE /\ attributes' = resolve_name(attributes, item_data)
            /\ pc' = "scan_radiant"
            /\ i' = 1
    /\ UNCHANGED <<lines, NotParse>>

\* lines 226-228, for lines[i]
ScanRadiant ==
    /\ pc = "scan_radiant"
    /\ attributes' = scan_radiant(attributes, lines[i])
    /\ pc' = "scan_attrs"
    /\ UNCHANGED <<lines, i, NotParse>>

\* lines 230-235, for lines[i]
ScanAttrs ==
    /\ pc = "scan_attrs"
    /\ IF scan_attrs_raises(attributes, lines[i])
       THEN pc' = "parse_raised" /\ attributes' = attributes
       ELSE pc' = "scan_special" /\ attributes' = scan_attrs(attributes, lines[i])
    /\ UNCHANGED <<lines, i, NotParse>>

\* lines 238-243, for lines[i], then on to the next line
ScanSpecial ==
    /\ pc = "scan_special"
    /\ attributes' = scan_special(attributes, lines[i])
    /\ i' = i + 1
    /\ pc' = IF i < Len(lines) THEN "scan_radiant" ELSE "description"
    /\ UNCHANGED <<lines, NotParse>>

\* lines 246-252
ExtractDescription ==
    /\ pc = "description"
    /\ attributes' = extract_description(attributes, lines)
    /\ pc' = "parse_returned"
    /\ UNCHANGED <<lines, i, NotParse>>

NextParse ==
    \/ ParseBegin
    \/ ExtractName
    \/ ResolveName
    \/ ScanRadiant
    \/ ScanAttrs
    \/ ScanSpecial
    \/ ExtractDescription

SpecParse == InitParse /\ [][NextParse]_vars

\* The blocks, run in order, are the call
StepsAreTheCall ==
    /\ pc = "parse_returned" =>
           parse_attributes(text, item_data, column_names)
               = [raised |-> FALSE, value |-> attributes]
    /\ pc = "parse_raised" =>
           parse_attributes(text, item_data, column_names).raised

(* What the claims speak of, said without the parser's own operators *)

\* two record values are the same Python value
SameValue(a, b) == a.t = b.t /\ a.v = b.v

Field(attrs, key) == attrs[CHOOSE j \in 1..Len(attrs) : attrs[j].k = key].v

\* label occurs in line, letters compared without case
LabelOccurs(label, line) ==
    \E k \in 0..(Len(line) - Len(label)) :
        \A m \in 1..Len(label) :
            LowerChar(Ch(line, k + m)) = LowerChar(Ch(label, m))

HasDigit(line) == \E k \in 1..Len(line) : Ch(line, k) \in {Ch(DigitChars, d) : d \in 1..10}

RECURSIVE DecimalValue(_, _, _)
DecimalValue(line, from, to) ==
    IF to < from THEN 0
    ELSE 10 * DecimalValue(line, from, to - 1) + DigitVal(Ch(line, to))

\* the number written by the first run of decimal digits of the line
FirstNumber(line) ==
    LET isd(k) == Ch(line, k) \in {Ch(DigitChars, d) : d \in 1..10}
        from == CHOOSE k \in 1..Len(line) : isd(k) /\ \A m \in 1..(k - 1) : ~isd(m)
        to == CHOOSE k \in from..Len(line) :
                  /\ \A m \in from..k : isd(m)
                  /\ (k < Len(line) => ~isd(k + 1))
    IN DecimalValue(line, from, to)

\* the lines that name the label and carry a digit
Hits(label, lns) ==
    {j \in 1..Len(lns) : LabelOccurs(label, lns[j]) /\ HasDigit(lns[j])}

Largest(S) == CHOOSE j \in S : \A m \in S : m <= j

Smallest(S) == CHOOSE j \in S : \A m \in S : j <= m

NumericFields ==
    {default_attributes[j].k : j \in {m \in 1..Len(default_attributes) :
                                          default_attributes[m].v.t = "int"}}

\* the lines that are not the marker phrase
NonMarker(lns) == {j \in 1..Len(lns) : lns[j] # Marker}

\* the lines that may serve as the description
Free(lns) ==
    {j \in 1..Len(lns) :
        /\ lns[j] # Marker
        /\ \A m \in 1..Len(default_attributes) :
               ~LabelOccurs(default_attributes[m].k, lns[j])}

\* sub occurs in line, character for character
Occurs(sub, line) ==
    \E k \in 0..(Len(line) - Len(sub)) :
        \A m \in 1..Len(sub) : Ch(line, k + m) = Ch(sub, m)

\* the raw name candidate: the first line that is not the marker phrase
Candidate(lns) == lns[Smallest(NonMarker(lns))]

-----------------------------------------------------------------------------
(* Specification Spec: one run of main() over the files found on disk and   *)
(* the texts the OCR engine returns                                         *)

NoFile == [exists |-> FALSE, rows |-> <<>>]

ExtractedItemsFiles ==
    { NoFile,
      [exists |-> TRUE, rows |-> <<>>],
      [exists |-> TRUE,
       rows |-> <<[Name |-> "Iron Sword", Type |-> "Weapon"],
                  [Name |-> "Iron Shield", Type |-> "Armor"]>>] }

AnkletsFiles ==
    { NoFile,
      [exists |-> TRUE,
       rows |-> <<[Name |-> "Iron Sword", Type |-> "Anklet"],
                  [Name |-> "Name", Type |-> "Anklet"]>>] }

ColumnNamesFiles ==
    { NoFile,
      [exists |-> TRUE, rows |-> <<[Name |-> "Name"], [Name |-> "Attack Power"]>>] }

DirEntries == {"a.png", "b.JPG", "c.jpeg", "notes.txt"}

\* os.listdir: the entries of the directory, each once, in any order
DirListings ==
    {l \in UNION {[1..n -> DirEntries] : n \in 0..MaxImages} :
        \A j, m \in 1..Len(l) : j # m => l[j] # l[m]}

OcrTexts ==
    { "",
      "Iron Swrd\nRunes can't be added to this item\nAttack Power 45\nA sturdy blade.",
      "Name 12\nDescription 5",
      "Totally Unrelated Xyz",
      LongDigitText }

Init ==
    /\ pc = "load_item_data"
    /\ item_data = <<>> /\ column_names = {}
    /\ IdleBatch /\ IdleLev /\ IdleValidate /\ IdleParse

NotBatch == <<s1, s2, lev_result, name, val_result, lines, i>>

\* lines 256-264
LoadItemData ==
    /\ pc = "load_item_data"
    /\ \E extracted \in ExtractedItemsFiles, anklets \in AnkletsFiles :
           /\ item_data' = dict_update(dict_update(<<>>, load_item_data(extracted)),
                                       load_item_data(anklets))
           /\ pc' = IF item_data' = <<>> THEN "exited" ELSE "load_column_names"
    /\ UNCHANGED <<column_names, text, attributes, image_files, fieldnames,
                   csv_rows, NotBatch>>

\* lines 267-269
LoadColumnNames ==
    /\ pc = "load_column_names"
    /\ \E csv_file \in ColumnNamesFiles : column_names' = load_column_names(csv_file)
    /\ pc' = "list_images"
    /\ UNCHANGED <<item_data, text, attributes, image_files, fieldnames,
                   csv_rows, NotBatch>>

\* lines 271-281
ListImages ==
    /\ pc = "list_images"
    /\ \E dir_exists \in BOOLEAN, listing \in DirListings :
           IF ~dir_exists \/ filter_images(listing) = <<>>
           THEN pc' = "exited" /\ image_files' = image_files
           ELSE pc' = "open_output" /\ image_files' = filter_images(listing)
    /\ UNCHANGED <<item_data, column_names, text, attributes, fieldnames,
                   csv_rows, NotBatch>>

\* lines 283-291
OpenOutput ==
    /\ pc = "open_output"
    /\ fieldnames' = header_fieldnames
    /\ csv_rows' = <<[j \in 1..Len(header_fieldnames) |->
                         [k |-> header_fieldnames[j],
                          v |-> PyStr(header_fieldnames[j]),
                          filled |-> FALSE]]>>
    /\ pc' = "process_image"
    /\ UNCHANGED <<item_data, column_names, text, attributes, image_files, NotBatch>>

\* lines 293-304, for the first file still to process; an exception of
\* parse_attributes or of writerow ends main
ProcessImage ==
    /\ pc = "process_image"
    /\ \E extracted_text \in OcrTexts :
           LET parsed == parse_attributes(extracted_text, item_data, column_names)
               row == make_row(image_files[1], parsed.value)
           IN /\ text' = extracted_text
              /\ IF parsed.raised
                 THEN /\ pc' = "parse_raised"
                      /\ UNCHANGED <<attributes, csv_rows, image_files>>
                 ELSE /\ attributes' = parsed.value
                      /\ IF writerow_raises(fieldnames, row)
                         THEN /\ pc' = "writerow_raised"
                              /\ UNCHANGED <<csv_rows, image_files>>
                         ELSE /\ csv_rows' = Append(csv_rows, writerow_cells(fieldnames, row))
                              /\ image_files' = Tail(image_files)
                              /\ pc' = IF Len(image_files) = 1
                                       THEN "main_done" ELSE "process_image"
    /\ UNCHANGED <<item_data, column_names, fieldnames, NotBatch>>

Next ==
    \/ LoadItemData
    \/ LoadColumnNames
    \/ ListImages
    \/ OpenOutput
    \/ ProcessImage

Spec == Init /\ [][Next]_vars

-----------------------------------------------------------------------------
(* Claims about parse_attributes, under SpecParse *)

\* C1: parse_attributes never raises: for every text (empty, whitespace-only
\* or any lines) and every catalog, the empty one included, the call ends by
\* returning a record.
C1_ParseNeverRaises == pc # "parse_raised"

\* C2: in every returned record each schema field holds a value of the type
\* of its schema default (string, boolean or integer), whatever the lines.
C2_FieldTypesFixed ==
    pc = "parse_returned" =>
        /\ Len(attributes) = Len(default_attributes)
        /\ \A j \in 1..Len(attributes) :
               /\ attributes[j].k = default_attributes[j].k
               /\ attributes[j].v.t = default_attributes[j].v.t

\* C3: when the raw name candidate is, letters lowered, a member of
\* column_names, the returned record's Name is not that label.
C3_ColumnLabelNeverName ==
    (pc = "parse_returned" /\ NonMarker(lines) # {}) =>
        (lower(Candidate(lines)) \in column_names =>
             ~SameValue(Field(attributes, "Name"), PyStr(Candidate(lines))))

\* C4: for non-empty text and a non-empty catalog the raw name candidate is
\* the first non-empty trimmed line that is not the marker phrase; if the least
\* edit distance from it to a catalog key is at most 5 the returned Name is
\* that closest key and Item Type its catalog type; if it is greater than 5 the
\* returned Name is the raw candidate and Item Type the empty string.
C4_NameResolution ==
    /\ (pc = "resolve_name" /\ NonMarker(lines) # {}) =>
           SameValue(Field(attributes, "Name"), PyStr(Candidate(lines)))
    /\ (pc = "parse_returned" /\ NonMarker(lines) # {} /\ Len(item_data) > 0) =>
           IF LeastDistance(Candidate(lines), item_data) <= 5
           THEN \E j \in 1..Len(item_data) :
                    /\ levenshtein_distance(Candidate(lines), item_data[j].k)
                           = LeastDistance(Candidate(lines), item_data)
                    /\ SameValue(Field(attributes, "Name"), PyStr(item_data[j].k))
                    /\ SameValue(Field(attributes, "Item Type"), PyStr(item_data[j].v))
           ELSE /\ SameValue(Field(attributes, "Name"), PyStr(Candidate(lines)))
                /\ SameValue(Field(attributes, "Item Type"), PyStr(""))

\* C5: in the returned record Is Radiant is True if some line contains the
\* marker phrase and False if no line does.
C5_RadiantFlag ==
    pc = "parse_returned" =>
        SameValue(Field(attributes, "Is Radiant"),
                  PyBool(\E j \in 1..Len(lines) : Occurs(Marker, lines[j])))

\* C9, one pass of the generic scan over a line: the pass completes, every
\* attribute whose label occurs in the line, case aside, is assigned the
\* integer of the line's first run of digits, and is left as it was when the
\* line has no digit.
C9_ScanPass ==
    pc = "scan_attrs" =>
        /\ pc' = "scan_special"
        /\ Len(attributes') = Len(attributes)
        /\ \A j \in 1..Len(attributes) :
               LabelOccurs(attributes[j].k, lines[i]) =>
                   /\ attributes'[j].k = attributes[j].k
                   /\ IF HasDigit(lines[i])
                      THEN SameValue(attributes'[j].v, PyInt(FirstNumber(lines[i])))
                      ELSE SameValue(attributes'[j].v, attributes[j].v)

\* C9, the returned record: an integer field whose label is matched only by
\* lines without digits stays at its default 0, and otherwise holds the number
\* of the last line that names it and carries a digit ("Attack Power 45"
\* yields Attack Power = 45).
C9_NumericFields ==
    (pc = "parse_returned" /\ Len(lines) > 0) =>
        \A f \in NumericFields :
            IF Hits(f, lines) = {}
            THEN SameValue(Field(attributes, f), PyInt(0))
            ELSE SameValue(Field(attributes, f),
                           PyInt(FirstNumber(lines[Largest(Hits(f, lines))])))

\* C9: during the line scan every schema attribute whose label occurs
\* case-insensitively in a line is assigned the integer value of the first run
\* of decimal digits found anywhere in that line; a matching line without
\* digits leaves the field unchanged, so a field matched only by such lines
\* stays at its default 0.
C9_ScanAssignsFirstDigits == [][C9_ScanPass]_vars /\ []C9_NumericFields

\* C10: for non-empty text Description is the last line that is not the marker
\* phrase and contains no schema label, case aside, and is the empty string
\* when there is no such line; a line equal to the marker phrase is never the
\* Description and never the raw name candidate.
C10_Description ==
    /\ (pc = "parse_returned" /\ Len(lines) > 0) =>
           /\ IF Free(lines) # {}
              THEN SameValue(Field(attributes, "Description"),
                             PyStr(lines[Largest(Free(lines))]))
              ELSE SameValue(Field(attributes, "Description"), PyStr(""))
           /\ ~SameValue(Field(attributes, "Description"), PyStr(Marker))
    /\ pc = "resolve_name" => ~SameValue(Field(attributes, "Name"), PyStr(Marker))

-----------------------------------------------------------------------------
(* Claim about main, under Spec *)

\* C8: in a batch run every row written has exactly the header's field set in
\* the header's order, Filename first and then the schema fields in declared
\* order, for every image, whether its text held data or the record fell back
\* to the defaults: the writer never rejects a row and never fills a cell.
C8_RowsMatchHeader ==
    /\ pc # "writerow_raised"
    /\ Len(csv_rows) > 0 =>
           /\ fieldnames = <<"Filename">> \o dict_keys(default_attributes)
           /\ \A r \in 1..Len(csv_rows) :
                  /\ Len(csv_rows[r]) = Len(fieldnames)
                  /\ \A m \in 1..Len(fieldnames) :
                         /\ csv_rows[r][m].k = fieldnames[m]
                         /\ ~csv_rows[r][m].filled
    /\ Len(csv_rows) > 1 =>
           dict_keys(make_row("", attributes)) = fieldnames

\* a finished run with a row of defaults and a row of extracted data
C8_Witness ==
    /\ pc = "main_done"
    /\ Len(csv_rows) = 3
    /\ SameValue(csv_rows[2][2].v, PyStr(""))
    /\ SameValue(csv_rows[3][2].v, PyStr("Iron Sword"))
    /\ SameValue(csv_rows[3][8].v, PyInt(45))

=============================================================================
